---- MODULE Spec2Model ----
(***************************************************************************)
(* Board representation, pseudo-legal move generation and the apply/undo   *)
(* protocol of the xiangqi engine (src/src/position.cpp, movegen.cpp,      *)
(* search.cpp).  The 11x14 mailbox board is a function on 0..153.          *)
(***************************************************************************)
EXTENDS Integers, Sequences, FiniteSets, TLC

VARIABLES board, sideToMove, kingSquare, searchPly, gamePly, rule60, hashKey,
          st, stateInfo, depth, moveStack, saved, last, enc, perft

vars == <<board, sideToMove, kingSquare, searchPly, gamePly, rule60, hashKey,
          st, stateInfo, depth, moveStack, saved, last, enc, perft>>

-----------------------------------------------------------------------------
(* Bounds of the model *)

\* the depth argument of perft on the sparse setups
MaxDepth == 2

\* the depth argument of perft on the standard starting layout
StartDepth == 1

\* an uninitialised StateInfo field reads as any value in 0..MaxIndet
MaxIndet == 1

\* make_move is not called once the reversible-move counter has reached this
MaxRule60 == 3

-----------------------------------------------------------------------------
(* Types: colors, pieces, squares *)

WHITE == 0
BLACK == 1
NO_COLOR == 2

NO_PIECE == 0
W_PAWN == 1
W_ADVISOR == 2
W_BISHOP == 3
W_KNIGHT == 4
W_CANNON == 5
W_ROOK == 6
W_KING == 7
B_PAWN == 8
B_ADVISOR == 9
B_BISHOP == 10
B_KNIGHT == 11
B_CANNON == 12
B_ROOK == 13
B_KING == 14
OFFBOARD == 15

PAWN == 0
ADVISOR == 1
BISHOP == 2
KNIGHT == 3
CANNON == 4
ROOK == 5
KING == 6

PIECE_TYPE == <<PAWN, ADVISOR, BISHOP, KNIGHT, CANNON, ROOK, KING,
                PAWN, ADVISOR, BISHOP, KNIGHT, CANNON, ROOK, KING>>

PIECE_COLOR == <<WHITE, WHITE, WHITE, WHITE, WHITE, WHITE, WHITE,
                 BLACK, BLACK, BLACK, BLACK, BLACK, BLACK, BLACK>>

\* PIECE_TYPE[piece]; the C array is 0-based with entry 0 for NO_PIECE
PieceTypeOf(p) == IF p = NO_PIECE THEN 0 ELSE PIECE_TYPE[p]

\* PIECE_COLOR[piece]; entry 0 is the no-color tag
PieceColorOf(p) == IF p = NO_PIECE THEN NO_COLOR ELSE PIECE_COLOR[p]

FILE_NB == 11
RANK_NB == 14
SQUARE_NB == 154
SQ_A1 == 0
SQ_NONE == SQUARE_NB
NULLPTR == 0 - 1

Squares == 0 .. (SQUARE_NB - 1)

make_square(f, r) == r * FILE_NB + f

\* COORDINATES[s] != "xx": the embedded 9x10 board
OnBoardCoord(s) ==
  LET f == s % FILE_NB
      r == s \div FILE_NB
  IN  f >= 1 /\ f <= 9 /\ r >= 2 /\ r <= 11

BoardSquares == {s \in Squares : OnBoardCoord(s)}

-----------------------------------------------------------------------------
(* Movement tables *)

NORTH == 11
SOUTH == 0 - 11
EAST == 1
WEST == 0 - 1

ORTHOGONALS == <<WEST, EAST, SOUTH, NORTH>>
DIAGONALS == <<SOUTH + WEST, SOUTH + EAST, NORTH + WEST, NORTH + EAST>>

BISHOP_MOVE_OFFSETS ==
  <<(SOUTH + WEST) * 2, (SOUTH + EAST) * 2, (NORTH + WEST) * 2, (NORTH + EAST) * 2>>

\* [direction][offset]: landing squares behind the leg ORTHOGONALS[direction]
KNIGHT_MOVE_OFFSETS ==
  << <<WEST + WEST + SOUTH, WEST + WEST + NORTH>>,
     <<EAST + EAST + SOUTH, EAST + EAST + NORTH>>,
     <<SOUTH + SOUTH + WEST, SOUTH + SOUTH + EAST>>,
     <<NORTH + NORTH + WEST, NORTH + NORTH + EAST>> >>

\* [direction][offset]: knight squares behind the leg DIAGONALS[direction]
KNIGHT_ATTACK_OFFSETS ==
  << <<SOUTH + SOUTH + WEST, WEST + WEST + SOUTH>>,
     <<SOUTH + SOUTH + EAST, EAST + EAST + SOUTH>>,
     <<NORTH + NORTH + WEST, WEST + WEST + NORTH>>,
     <<NORTH + NORTH + EAST, EAST + EAST + NORTH>> >>

\* [side]: forward step first, then the two sideways steps
PAWN_MOVE_OFFSETS == << <<NORTH, WEST, EAST>>, <<SOUTH, WEST, EAST>> >>

\* [side]: offsets from an attacked square back to the attacking pawn
PAWN_ATTACK_OFFSETS == << <<SOUTH, WEST, EAST>>, <<NORTH, WEST, EAST>> >>

\* BOARD_ZONES[side][square]: 0 off-board or beyond the river, 1 own half,
\* 2 own palace
BoardZone(side, s) ==
  LET f == s % FILE_NB
      r == s \div FILE_NB
  IN  IF ~OnBoardCoord(s) THEN 0
      ELSE IF side = WHITE
           THEN (IF r > 6 THEN 0
                 ELSE IF f >= 4 /\ f <= 6 /\ r <= 4 THEN 2 ELSE 1)
           ELSE (IF r < 7 THEN 0
                 ELSE IF f >= 4 /\ f <= 6 /\ r >= 9 THEN 2 ELSE 1)

-----------------------------------------------------------------------------
(* Move encoding: source | target << 8 | sourcePiece << 16 |               *)
(* targetPiece << 20 | captureFlag << 24                                   *)

MOVE_NONE == 0

TargetShift == 256
SourcePieceShift == 65536
TargetPieceShift == 1048576
CaptureShift == 16777216

SquareMask == 256
PieceMask == 16
FlagMask == 2

\* variant of move_encode that shifts the target square by seven bits
move_encode_Shift7(sourceSquare, targetSquare, sourcePiece, targetPiece, captureFlag) ==
  sourceSquare + targetSquare * (TargetShift \div 2) + sourcePiece * SourcePieceShift
    + targetPiece * TargetPieceShift + captureFlag * CaptureShift

move_encode(sourceSquare, targetSquare, sourcePiece, targetPiece, captureFlag) ==
  sourceSquare + targetSquare * TargetShift + sourcePiece * SourcePieceShift
    + targetPiece * TargetPieceShift + captureFlag * CaptureShift

getSourceSquare(move) == move % SquareMask
getTargetSquare(move) == (move \div TargetShift) % SquareMask
getSourcePiece(move) == (move \div SourcePieceShift) % PieceMask
getTargetPiece(move) == (move \div TargetPieceShift) % PieceMask
getCaptureFlag(move) == (move \div CaptureShift) % FlagMask

-----------------------------------------------------------------------------
(* Attack detector: Position::isSquareAttacked *)

PieceOf(c, pt) == IF c = WHITE THEN pt + 1 ELSE pt + 8

\* variant of KnightAttack without the test of the leg square
KnightAttackAnyLeg(b, s, c) ==
  \E direction \in 1..4 :
    \E offset \in 1..2 :
      b[s + KNIGHT_ATTACK_OFFSETS[direction][offset]] = PieceOf(c, KNIGHT)

\* the knight loop of isSquareAttacked
KnightAttack(b, s, c) ==
  \E direction \in 1..4 :
    /\ b[s + DIAGONALS[direction]] = NO_PIECE
    /\ \E offset \in 1..2 :
         b[s + KNIGHT_ATTACK_OFFSETS[direction][offset]] = PieceOf(c, KNIGHT)

\* variant of RayAttack without the test for the king on the open line
RECURSIVE RayAttackNoKing(_, _, _, _, _)
RayAttackNoKing(b, directionTarget, delta, jumpOver, c) ==
  IF b[directionTarget] = OFFBOARD THEN FALSE
  ELSE IF jumpOver = 0 /\ b[directionTarget] = PieceOf(c, ROOK)
  THEN TRUE
  ELSE LET j == IF b[directionTarget] # NO_PIECE THEN jumpOver + 1 ELSE jumpOver
       IN  IF j = 2 /\ b[directionTarget] = PieceOf(c, CANNON) THEN TRUE
           ELSE RayAttackNoKing(b, directionTarget + delta, delta, j, c)

\* variant of RayAttack that reports a rook or king behind one piece
RECURSIVE RayAttackBehindScreen(_, _, _, _, _)
RayAttackBehindScreen(b, directionTarget, delta, jumpOver, c) ==
  IF b[directionTarget] = OFFBOARD THEN FALSE
  ELSE IF jumpOver <= 1 /\ (b[directionTarget] = PieceOf(c, ROOK)
                            \/ b[directionTarget] = PieceOf(c, KING))
  THEN TRUE
  ELSE LET j == IF b[directionTarget] # NO_PIECE THEN jumpOver + 1 ELSE jumpOver
       IN  IF j = 2 /\ b[directionTarget] = PieceOf(c, CANNON) THEN TRUE
           ELSE RayAttackBehindScreen(b, directionTarget + delta, delta, j, c)

\* the while loop of isSquareAttacked along one orthogonal ray
RECURSIVE RayAttack(_, _, _, _, _)
RayAttack(b, directionTarget, delta, jumpOver, c) ==
  IF b[directionTarget] = OFFBOARD THEN FALSE
  ELSE IF jumpOver = 0 /\ (b[directionTarget] = PieceOf(c, ROOK)
                           \/ b[directionTarget] = PieceOf(c, KING))
  THEN TRUE
  ELSE LET j == IF b[directionTarget] # NO_PIECE THEN jumpOver + 1 ELSE jumpOver
       IN  IF j = 2 /\ b[directionTarget] = PieceOf(c, CANNON) THEN TRUE
           ELSE RayAttack(b, directionTarget + delta, delta, j, c)

\* variant of LineAttack whose direction loop stops after two rays
LineAttackTwoRays(b, s, c) ==
  \E direction \in 1..2 :
    RayAttack(b, s + ORTHOGONALS[direction], ORTHOGONALS[direction], 0, c)

LineAttack(b, s, c) ==
  \E direction \in 1..4 :
    RayAttack(b, s + ORTHOGONALS[direction], ORTHOGONALS[direction], 0, c)

\* number of entries of PAWN_ATTACK_OFFSETS[c] the pawn loop visits
PawnAttackDirections == 2

PawnAttack(b, s, c) ==
  \E direction \in 1..PawnAttackDirections :
    b[s + PAWN_ATTACK_OFFSETS[c + 1][direction]] = PieceOf(c, PAWN)

isSquareAttacked(b, s, c) ==
  KnightAttack(b, s, c) \/ LineAttack(b, s, c) \/ PawnAttack(b, s, c)

-----------------------------------------------------------------------------
(* Move generator: pushMove and generateMoves *)

\* variant of pushMove that emits quiet moves in captures-only mode too
pushMoveQuietAlways(side, moveList, sourceSquare, targetSquare, sourcePiece, targetPiece, onlyCaptures) ==
  IF targetPiece = NO_PIECE \/ PieceColorOf(targetPiece) = 1 - side
  THEN Append(moveList,
              move_encode(sourceSquare, targetSquare, sourcePiece, targetPiece,
                          IF targetPiece # NO_PIECE THEN 1 ELSE 0))
  ELSE moveList

\* variant of pushMove without the test of the color of the target piece
pushMoveAnyTarget(side, moveList, sourceSquare, targetSquare, sourcePiece, targetPiece, onlyCaptures) ==
  LET move ==
        IF targetPiece # NO_PIECE
        THEN move_encode(sourceSquare, targetSquare, sourcePiece, targetPiece, 1)
        ELSE IF ~onlyCaptures
             THEN move_encode(sourceSquare, targetSquare, sourcePiece, targetPiece, 0)
             ELSE MOVE_NONE
  IN  IF move # MOVE_NONE THEN Append(moveList, move) ELSE moveList

pushMove(side, moveList, sourceSquare, targetSquare, sourcePiece, targetPiece, onlyCaptures) ==
  IF targetPiece = NO_PIECE \/ PieceColorOf(targetPiece) = 1 - side
  THEN LET move ==
             IF targetPiece # NO_PIECE
             THEN move_encode(sourceSquare, targetSquare, sourcePiece, targetPiece, 1)
             ELSE IF ~onlyCaptures
                  THEN move_encode(sourceSquare, targetSquare, sourcePiece,
                                   targetPiece, 0)
                  ELSE MOVE_NONE
       IN  IF move # MOVE_NONE THEN Append(moveList, move) ELSE moveList
  ELSE moveList

\* variant of PawnMoves whose loop never breaks after the forward step
RECURSIVE PawnMovesNoBreak(_, _, _, _, _, _)
PawnMovesNoBreak(b, side, moveList, sourceSquare, direction, onlyCaptures) ==
  IF direction > 3 THEN moveList
  ELSE LET targetSquare == sourceSquare + PAWN_MOVE_OFFSETS[side + 1][direction]
           targetPiece == b[targetSquare]
           l == IF targetPiece # OFFBOARD
                THEN pushMove(side, moveList, sourceSquare, targetSquare,
                              b[sourceSquare], targetPiece, onlyCaptures)
                ELSE moveList
       IN  PawnMovesNoBreak(b, side, l, sourceSquare, direction + 1, onlyCaptures)

\* pawns: the forward step, then the sideways steps unless the loop breaks
RECURSIVE PawnMoves(_, _, _, _, _, _)
PawnMoves(b, side, moveList, sourceSquare, direction, onlyCaptures) ==
  IF direction > 3 THEN moveList
  ELSE LET targetSquare == sourceSquare + PAWN_MOVE_OFFSETS[side + 1][direction]
           targetPiece == b[targetSquare]
           l == IF targetPiece # OFFBOARD
                THEN pushMove(side, moveList, sourceSquare, targetSquare,
                              b[sourceSquare], targetPiece, onlyCaptures)
                ELSE moveList
       IN  IF BoardZone(side, sourceSquare) # 0 THEN l
           ELSE PawnMoves(b, side, l, sourceSquare, direction + 1, onlyCaptures)

\* variant of PalaceMoves that accepts every target of the own half
RECURSIVE PalaceMovesOwnHalf(_, _, _, _, _, _)
PalaceMovesOwnHalf(b, side, moveList, sourceSquare, direction, onlyCaptures) ==
  IF direction > 4 THEN moveList
  ELSE LET offsets == IF PieceTypeOf(b[sourceSquare]) = KING
                      THEN ORTHOGONALS ELSE DIAGONALS
           targetSquare == sourceSquare + offsets[direction]
           l == IF BoardZone(side, targetSquare) # 0
                THEN pushMove(side, moveList, sourceSquare, targetSquare,
                              b[sourceSquare], b[targetSquare], onlyCaptures)
                ELSE moveList
       IN  PalaceMovesOwnHalf(b, side, l, sourceSquare, direction + 1, onlyCaptures)

\* kings and advisors: four steps, accepted inside the own palace only
RECURSIVE PalaceMoves(_, _, _, _, _, _)
PalaceMoves(b, side, moveList, sourceSquare, direction, onlyCaptures) ==
  IF direction > 4 THEN moveList
  ELSE LET offsets == IF PieceTypeOf(b[sourceSquare]) = KING
                      THEN ORTHOGONALS ELSE DIAGONALS
           targetSquare == sourceSquare + offsets[direction]
           l == IF BoardZone(side, targetSquare) = 2
                THEN pushMove(side, moveList, sourceSquare, targetSquare,
                              b[sourceSquare], b[targetSquare], onlyCaptures)
                ELSE moveList
       IN  PalaceMoves(b, side, l, sourceSquare, direction + 1, onlyCaptures)

\* variant of BishopMoves that accepts every target on the board
RECURSIVE BishopMovesAcrossRiver(_, _, _, _, _, _)
BishopMovesAcrossRiver(b, side, moveList, sourceSquare, direction, onlyCaptures) ==
  IF direction > 4 THEN moveList
  ELSE LET targetSquare == sourceSquare + BISHOP_MOVE_OFFSETS[direction]
           jumpOver == sourceSquare + DIAGONALS[direction]
           l == IF b[targetSquare] # OFFBOARD /\ b[jumpOver] = NO_PIECE
                THEN pushMove(side, moveList, sourceSquare, targetSquare,
                              b[sourceSquare], b[targetSquare], onlyCaptures)
                ELSE moveList
       IN  BishopMovesAcrossRiver(b, side, l, sourceSquare, direction + 1, onlyCaptures)

\* bishops: two-step diagonal jumps over an empty eye, own half only
RECURSIVE BishopMoves(_, _, _, _, _, _)
BishopMoves(b, side, moveList, sourceSquare, direction, onlyCaptures) ==
  IF direction > 4 THEN moveList
  ELSE LET targetSquare == sourceSquare + BISHOP_MOVE_OFFSETS[direction]
           jumpOver == sourceSquare + DIAGONALS[direction]
           l == IF BoardZone(side, targetSquare) # 0 /\ b[jumpOver] = NO_PIECE
                THEN pushMove(side, moveList, sourceSquare, targetSquare,
                              b[sourceSquare], b[targetSquare], onlyCaptures)
                ELSE moveList
       IN  BishopMoves(b, side, l, sourceSquare, direction + 1, onlyCaptures)

\* the two landing squares behind one knight leg
RECURSIVE KnightLandings(_, _, _, _, _, _, _)
KnightLandings(b, side, moveList, sourceSquare, direction, offset, onlyCaptures) ==
  IF offset > 2 THEN moveList
  ELSE LET targetSquare == sourceSquare + KNIGHT_MOVE_OFFSETS[direction][offset]
           targetPiece == b[targetSquare]
           l == IF targetPiece # OFFBOARD
                THEN pushMove(side, moveList, sourceSquare, targetSquare,
                              b[sourceSquare], targetPiece, onlyCaptures)
                ELSE moveList
       IN  KnightLandings(b, side, l, sourceSquare, direction, offset + 1,
                          onlyCaptures)

\* variant of KnightMoves that does not look at the leg square
RECURSIVE KnightMovesAnyLeg(_, _, _, _, _, _)
KnightMovesAnyLeg(b, side, moveList, sourceSquare, direction, onlyCaptures) ==
  IF direction > 4 THEN moveList
  ELSE KnightMovesAnyLeg(b, side,
                         KnightLandings(b, side, moveList, sourceSquare, direction,
                                        1, onlyCaptures),
                         sourceSquare, direction + 1, onlyCaptures)

\* knights: for each leg that is empty, its two landing squares
RECURSIVE KnightMoves(_, _, _, _, _, _)
KnightMoves(b, side, moveList, sourceSquare, direction, onlyCaptures) ==
  IF direction > 4 THEN moveList
  ELSE LET targetDirection == sourceSquare + ORTHOGONALS[direction]
           l == IF b[targetDirection] = NO_PIECE
                THEN KnightLandings(b, side, moveList, sourceSquare, direction, 1,
                                    onlyCaptures)
                ELSE moveList
       IN  KnightMoves(b, side, l, sourceSquare, direction + 1, onlyCaptures)

\* variant of SliderRay in which the cannon captures what it meets first
RECURSIVE SliderRayNoScreen(_, _, _, _, _, _, _, _)
SliderRayNoScreen(b, side, moveList, sourceSquare, targetSquare, delta, jumpOver, onlyCaptures) ==
  IF b[targetSquare] = OFFBOARD THEN moveList
  ELSE LET targetPiece == b[targetSquare]
           l == IF jumpOver = 0
                THEN pushMove(side, moveList, sourceSquare, targetSquare,
                              b[sourceSquare], targetPiece, onlyCaptures)
                ELSE moveList
           j == IF targetPiece # NO_PIECE THEN jumpOver + 1 ELSE jumpOver
       IN  SliderRayNoScreen(b, side, l, sourceSquare, targetSquare + delta, delta, j,
                             onlyCaptures)

\* variant of SliderRay in which a rook goes on behind the first piece
RECURSIVE SliderRayRookJumps(_, _, _, _, _, _, _, _)
SliderRayRookJumps(b, side, moveList, sourceSquare, targetSquare, delta, jumpOver, onlyCaptures) ==
  IF b[targetSquare] = OFFBOARD THEN moveList
  ELSE LET pieceType == PieceTypeOf(b[sourceSquare])
           targetPiece == b[targetSquare]
           l == IF pieceType = ROOK
                   \/ (jumpOver = 0 /\ pieceType = CANNON /\ targetPiece = NO_PIECE)
                THEN pushMove(side, moveList, sourceSquare, targetSquare,
                              b[sourceSquare], targetPiece, onlyCaptures)
                ELSE moveList
           j == IF targetPiece # NO_PIECE THEN jumpOver + 1 ELSE jumpOver
       IN  IF targetPiece # NO_PIECE /\ pieceType = CANNON /\ j = 2
           THEN pushMove(side, l, sourceSquare, targetSquare, b[sourceSquare],
                         targetPiece, onlyCaptures)
           ELSE SliderRayRookJumps(b, side, l, sourceSquare, targetSquare + delta,
                                   delta, j, onlyCaptures)

\* the while loop of one rook or cannon ray
RECURSIVE SliderRay(_, _, _, _, _, _, _, _)
SliderRay(b, side, moveList, sourceSquare, targetSquare, delta, jumpOver, onlyCaptures) ==
  IF b[targetSquare] = OFFBOARD THEN moveList
  ELSE LET pieceType == PieceTypeOf(b[sourceSquare])
           targetPiece == b[targetSquare]
           l == IF jumpOver = 0 /\ (pieceType = ROOK
                                    \/ (pieceType = CANNON /\ targetPiece = NO_PIECE))
                THEN pushMove(side, moveList, sourceSquare, targetSquare,
                              b[sourceSquare], targetPiece, onlyCaptures)
                ELSE moveList
           j == IF targetPiece # NO_PIECE THEN jumpOver + 1 ELSE jumpOver
       IN  IF targetPiece # NO_PIECE /\ pieceType = CANNON /\ j = 2
           THEN pushMove(side, l, sourceSquare, targetSquare, b[sourceSquare],
                         targetPiece, onlyCaptures)
           ELSE SliderRay(b, side, l, sourceSquare, targetSquare + delta, delta, j,
                          onlyCaptures)

\* rooks and cannons: the four rays in ORTHOGONALS order
RECURSIVE SliderMoves(_, _, _, _, _, _)
SliderMoves(b, side, moveList, sourceSquare, direction, onlyCaptures) ==
  IF direction > 4 THEN moveList
  ELSE SliderMoves(b, side,
                   SliderRay(b, side, moveList, sourceSquare,
                             sourceSquare + ORTHOGONALS[direction],
                             ORTHOGONALS[direction], 0, onlyCaptures),
                   sourceSquare, direction + 1, onlyCaptures)

\* the body of the square loop for one source square
SquareMoves(b, side, moveList, sourceSquare, onlyCaptures) ==
  IF b[sourceSquare] = OFFBOARD \/ PieceColorOf(b[sourceSquare]) # side
  THEN moveList
  ELSE LET pieceType == PieceTypeOf(b[sourceSquare])
       IN  IF pieceType = PAWN
           THEN PawnMoves(b, side, moveList, sourceSquare, 1, onlyCaptures)
           ELSE IF pieceType = KING \/ pieceType = ADVISOR
           THEN PalaceMoves(b, side, moveList, sourceSquare, 1, onlyCaptures)
           ELSE IF pieceType = BISHOP
           THEN BishopMoves(b, side, moveList, sourceSquare, 1, onlyCaptures)
           ELSE IF pieceType = KNIGHT
           THEN KnightMoves(b, side, moveList, sourceSquare, 1, onlyCaptures)
           ELSE SliderMoves(b, side, moveList, sourceSquare, 1, onlyCaptures)

\* the square loop (SQ_A1 up to SQUARE_NB - 1, ascending) over lo..hi: the
\* moves of the squares of the lower half of the range, then of the upper
RECURSIVE GenerateRange(_, _, _, _, _)
GenerateRange(b, side, lo, hi, onlyCaptures) ==
  IF lo = hi THEN SquareMoves(b, side, <<>>, lo, onlyCaptures)
  ELSE LET mid == (lo + hi) \div 2
       IN  GenerateRange(b, side, lo, mid, onlyCaptures)
             \o GenerateRange(b, side, mid + 1, hi, onlyCaptures)

generateMoves(b, side, onlyCaptures) ==
  GenerateRange(b, side, SQ_A1, SQUARE_NB - 1, onlyCaptures)

-----------------------------------------------------------------------------
(* Position::set: setup from a notation string, a sequence of characters *)

XQ_START_FEN ==
  <<
     "r", "n", "b", "a", "k", "a", "b", "n", "r", "/", "9", "/",
     "1", "c", "5", "c", "1", "/", "p", "1", "p", "1", "p", "1",
     "p", "1", "p", "/", "9", "/", "9", "/", "P", "1", "P", "1",
     "P", "1", "P", "1", "P", "/", "1", "C", "5", "C", "1", "/",
     "9", "/", "R", "N", "B", "A", "K", "A", "B", "N", "R", " ",
     "w", " ", "-", " ", "-", " ", "0", " ", "1" >>

\* a sparse setup, red to move: the red pawn e5 is the only piece between
\* the kings, the cannon b0 has the screen b3 in front of the knight b7
FEN_PINNED_PAWN ==
  <<
     "4", "k", "4", "/", "9", "/", "1", "n", "7", "/", "9", "/",
     "4", "P", "4", "/", "6", "p", "2", "/", "1", "p", "7", "/",
     "9", "/", "9", "/", "1", "C", "1", "A", "K", "4", " ", "w",
     " ", "-", " ", "-", " ", "0", " ", "1" >>

\* a sparse setup, black to move: the rook d1 attacks the king d9; the
\* knight b7 can interpose, the bishop c9 cannot
FEN_ROOK_CHECK ==
  <<
     "2", "b", "k", "5", "/", "9", "/", "1", "n", "7", "/", "9",
     "/", "9", "/", "9", "/", "9", "/", "9", "/", "3", "R", "5",
     "/", "5", "K", "3", " ", "b", " ", "-", " ", "-", " ", "0",
     " ", "1" >>

\* a sparse setup, red to move: the black pawn f1 stands next to the red
\* king e1 on its EAST side; clock 2, move number 7
FEN_PAWN_CHECK ==
  <<
     "3", "k", "5", "/", "9", "/", "9", "/", "9", "/", "9", "/",
     "9", "/", "P", "8", "/", "9", "/", "4", "K", "p", "3", "/",
     "9", " ", "w", " ", "-", " ", "-", " ", "2", " ", "7" >>

\* a setup with every piece type but advisors, red to move: bishops c4 and
\* c5 at the river, the knight d3 on the eye between c4 and e2, pawns on
\* both sides of the river and on the last rank (f9), the rooks e1 and h1
\* facing each other, cannons b2 and b7 on one file
FEN_ALL_PIECES ==
  <<
     "3", "k", "1", "P", "3", "/", "9", "/", "1", "c", "5", "n",
     "1", "/", "p", "7", "p", "/", "2", "b", "3", "P", "2", "/",
     "2", "B", "1", "p", "4", "/", "3", "N", "5", "/", "1", "C",
     "7", "/", "4", "R", "2", "r", "1", "/", "3", "K", "5", " ",
     "w", " ", "-", " ", "-", " ", "0", " ", "1" >>

UpperLetters ==
  {"A", "B", "C", "D", "E", "F", "G", "H", "I", "J", "K", "L", "M", "N", "O", "P",
   "Q", "R", "S", "T", "U", "V", "W", "X", "Y", "Z"}
LowerLetters ==
  {"a", "b", "c", "d", "e", "f", "g", "h", "i", "j", "k", "l", "m", "n", "o", "p",
   "q", "r", "s", "t", "u", "v", "w", "x", "y", "z"}
Digits == {"0", "1", "2", "3", "4", "5", "6", "7", "8", "9"}

IsLetter(token) == token \in UpperLetters \/ token \in LowerLetters
IsDigit(token) == token \in Digits
IsSpace(token) == token = " "

DigitValue(token) ==
  CASE token = "0" -> 0 [] token = "1" -> 1 [] token = "2" -> 2 [] token = "3" -> 3
    [] token = "4" -> 4 [] token = "5" -> 5 [] token = "6" -> 6 [] token = "7" -> 7
    [] token = "8" -> 8 [] token = "9" -> 9

\* CHAR_TO_PIECE[token]; every entry not assigned is NO_PIECE
CHAR_TO_PIECE(token) ==
  CASE token = "P" -> W_PAWN [] token = "A" -> W_ADVISOR
    [] token = "B" -> W_BISHOP [] token = "E" -> W_BISHOP
    [] token = "N" -> W_KNIGHT [] token = "H" -> W_KNIGHT
    [] token = "C" -> W_CANNON [] token = "R" -> W_ROOK [] token = "K" -> W_KING
    [] token = "p" -> B_PAWN [] token = "a" -> B_ADVISOR
    [] token = "b" -> B_BISHOP [] token = "e" -> B_BISHOP
    [] token = "n" -> B_KNIGHT [] token = "h" -> B_KNIGHT
    [] token = "c" -> B_CANNON [] token = "r" -> B_ROOK [] token = "k" -> B_KING
    [] OTHER -> NO_PIECE

\* ss >> token without whitespace skipping: at the end of the string the
\* extraction fails and the token keeps its value
ReadToken(fenStr, in) ==
  IF in.i <= Len(fenStr) THEN [token |-> fenStr[in.i], i |-> in.i + 1, ok |-> TRUE]
  ELSE [token |-> in.token, i |-> in.i, ok |-> FALSE]

\* variant of ResetBoard that takes the file FILE_NB - 1 for a board file
ResetBoardWide ==
  [s \in Squares |->
     IF OnBoardCoord(s) \/ (s % FILE_NB = FILE_NB - 1 /\ OnBoardCoord(s - 1))
     THEN NO_PIECE ELSE OFFBOARD]

\* reset board array
ResetBoard == [s \in Squares |-> IF OnBoardCoord(s) THEN NO_PIECE ELSE OFFBOARD]

\* variant of PlaceSquare that adds a digit to the file index without the
\* step back on an empty square
PlaceSquareWideSkip(fenStr, b, ks, in, f, s) ==
  LET letter == IsLetter(in.token)
      b1 == IF letter THEN [b EXCEPT ![s] = CHAR_TO_PIECE(in.token)] ELSE b
      ks1 == IF letter /\ in.token = "K" THEN [ks EXCEPT ![WHITE + 1] = s]
             ELSE IF letter /\ in.token = "k" THEN [ks EXCEPT ![BLACK + 1] = s]
             ELSE ks
      in1 == IF letter THEN ReadToken(fenStr, in) ELSE in
      digit == IsDigit(in1.token)
      f1 == IF digit THEN f + DigitValue(in1.token) ELSE f
      in2 == IF digit THEN ReadToken(fenStr, in1) ELSE in1
      in3 == IF in2.token = "/" THEN ReadToken(fenStr, in2) ELSE in2
  IN  [board |-> b1, kingSquare |-> ks1, in |-> in3, f |-> f1]

\* the body of the file loop for one on-board square s; returns the board,
\* the king squares, the stream and the file index after the body
PlaceSquare(fenStr, b, ks, in, f, s) ==
  LET letter == IsLetter(in.token)
      b1 == IF letter THEN [b EXCEPT ![s] = CHAR_TO_PIECE(in.token)] ELSE b
      ks1 == IF letter /\ in.token = "K" THEN [ks EXCEPT ![WHITE + 1] = s]
             ELSE IF letter /\ in.token = "k" THEN [ks EXCEPT ![BLACK + 1] = s]
             ELSE ks
      in1 == IF letter THEN ReadToken(fenStr, in) ELSE in
      digit == IsDigit(in1.token)
      f1 == IF digit
            THEN (IF b1[s] = NO_PIECE THEN f - 1 ELSE f) + DigitValue(in1.token)
            ELSE f
      in2 == IF digit THEN ReadToken(fenStr, in1) ELSE in1
      in3 == IF in2.token = "/" THEN ReadToken(fenStr, in2) ELSE in2
  IN  [board |-> b1, kingSquare |-> ks1, in |-> in3, f |-> f1]

\* the file loop (FILE_A to FILE_K) of one rank
RECURSIVE FileLoop(_, _, _, _, _, _)
FileLoop(fenStr, b, ks, in, r, f) ==
  IF f > FILE_NB - 1 THEN [board |-> b, kingSquare |-> ks, in |-> in]
  ELSE IF b[make_square(f, r)] = OFFBOARD
  THEN FileLoop(fenStr, b, ks, in, r, f + 1)
  ELSE LET p == PlaceSquare(fenStr, b, ks, in, f, make_square(f, r))
       IN  FileLoop(fenStr, p.board, p.kingSquare, p.in, r, p.f + 1)

\* the rank loop (RANK_14 down to RANK_1)
RECURSIVE PlacementLoop(_, _, _, _, _)
PlacementLoop(fenStr, b, ks, in, r) ==
  IF r < 0 THEN [board |-> b, kingSquare |-> ks, in |-> in]
  ELSE LET p == FileLoop(fenStr, b, ks, in, r, 0)
       IN  PlacementLoop(fenStr, p.board, p.kingSquare, p.in, r - 1)

\* while ((ss >> token) && !isspace(token)) {}
RECURSIVE SkipField(_, _)
SkipField(fenStr, in) ==
  LET n == ReadToken(fenStr, in)
  IN  IF n.ok /\ ~IsSpace(n.token) THEN SkipField(fenStr, n) ELSE n

RECURSIVE SkipSpaces(_, _)
SkipSpaces(fenStr, i) ==
  IF i <= Len(fenStr) /\ IsSpace(fenStr[i]) THEN SkipSpaces(fenStr, i + 1) ELSE i

RECURSIVE ReadDigits(_, _, _, _)
ReadDigits(fenStr, i, value, count) ==
  IF i <= Len(fenStr) /\ IsDigit(fenStr[i])
  THEN ReadDigits(fenStr, i + 1, value * 10 + DigitValue(fenStr[i]), count + 1)
  ELSE [i |-> i, value |-> value, count |-> count]

\* ss >> skipws >> int: leading spaces are skipped, then an optional sign and
\* digits are read; with no digit the extraction fails, stores 0 and puts the
\* stream in the failed state, in which later extractions store nothing
ReadInt(fenStr, in, old) ==
  IF ~in.ok THEN [value |-> old, in |-> in]
  ELSE LET i0 == SkipSpaces(fenStr, in.i)
           signed == i0 <= Len(fenStr) /\ fenStr[i0] \in {"-", "+"}
           d == ReadDigits(fenStr, IF signed THEN i0 + 1 ELSE i0, 0, 0)
       IN  IF d.count = 0
           THEN [value |-> 0, in |-> [in EXCEPT !.i = d.i, !.ok = FALSE]]
           ELSE [value |-> IF signed /\ fenStr[i0] = "-" THEN 0 - d.value ELSE d.value,
                 in |-> [in EXCEPT !.i = d.i]]

Max(a, b) == IF a >= b THEN a ELSE b

\* the zeroed StateInfo (std::memset(si, 0, sizeof(StateInfo)))
ZeroStateInfo == [hashKey |-> 0, rule60 |-> 0, previous |-> NULLPTR]

\* Position::set(fenStr, si): the Position fields and *si when it returns
set(fenStr) ==
  LET in0 == ReadToken(fenStr, [token |-> "", i |-> 1, ok |-> TRUE])
      p == PlacementLoop(fenStr, ResetBoard, <<SQ_NONE, SQ_NONE>>, in0, RANK_NB - 1)
      in1 == ReadToken(fenStr, p.in)
      side == IF in1.token = "b" THEN BLACK ELSE WHITE
      in2 == ReadToken(fenStr, in1)
      in3 == SkipField(fenStr, in2)
      clock == ReadInt(fenStr, in3, 0)
      ply == ReadInt(fenStr, clock.in, 0)
  IN  [board |-> p.board, sideToMove |-> side, kingSquare |-> p.kingSquare,
       searchPly |-> 0,
       gamePly |-> Max(2 * (ply.value - 1), 0) + (IF side = BLACK THEN 1 ELSE 0),
       rule60 |-> 0, hashKey |-> 0,
       si |-> [ZeroStateInfo EXCEPT !.rule60 = clock.value]]

-----------------------------------------------------------------------------
(* Move applier: Position::make_move and Position::undo_move, as functions *)
(* of the Position fields and the StateInfo records P.stateInfo            *)

IsKing(p) == p = W_KING \/ p = B_KING

\* the content of a StateInfo field that was never written
INDETERMINATE == 0 - 1

\* reading a StateInfo field: a field never written yields the value g
ReadField(v, g) == IF v = INDETERMINATE THEN g ELSE v

\* variant of undo_move that does not put the captured piece back
undo_move_NoCapture(P, move, g) ==
  LET sourceSquare == getSourceSquare(move)
      targetSquare == getTargetSquare(move)
      sourcePiece == getSourcePiece(move)
      b1 == [P.board EXCEPT ![sourceSquare] = sourcePiece, ![targetSquare] = NO_PIECE]
      ks == IF IsKing(b1[sourceSquare])
            THEN [P.kingSquare EXCEPT ![(1 - P.sideToMove) + 1] = sourceSquare]
            ELSE P.kingSquare
  IN  [P EXCEPT !.searchPly = P.searchPly - 1,
                !.gamePly = P.gamePly - 1,
                !.board = b1,
                !.kingSquare = ks,
                !.sideToMove = 1 - P.sideToMove,
                !.rule60 = ReadField(P.stateInfo[P.st].rule60, g),
                !.hashKey = ReadField(P.stateInfo[P.st].hashKey, g),
                !.st = P.stateInfo[P.st].previous]

\* variant of undo_move that leaves gamePly as it is
undo_move_KeepGamePly(P, move, g) ==
  LET sourceSquare == getSourceSquare(move)
      targetSquare == getTargetSquare(move)
      sourcePiece == getSourcePiece(move)
      targetPiece == getTargetPiece(move)
      b1 == [P.board EXCEPT ![sourceSquare] = sourcePiece, ![targetSquare] = NO_PIECE]
      b2 == IF getCaptureFlag(move) # 0 THEN [b1 EXCEPT ![targetSquare] = targetPiece]
            ELSE b1
      ks == IF IsKing(b2[sourceSquare])
            THEN [P.kingSquare EXCEPT ![(1 - P.sideToMove) + 1] = sourceSquare]
            ELSE P.kingSquare
  IN  [P EXCEPT !.searchPly = P.searchPly - 1,
                !.board = b2,
                !.kingSquare = ks,
                !.sideToMove = 1 - P.sideToMove,
                !.rule60 = ReadField(P.stateInfo[P.st].rule60, g),
                !.hashKey = ReadField(P.stateInfo[P.st].hashKey, g),
                !.st = P.stateInfo[P.st].previous]

\* Position::undo_move(move); g is what an uninitialised field reads as
undo_move(P, move, g) ==
  LET sourceSquare == getSourceSquare(move)
      targetSquare == getTargetSquare(move)
      sourcePiece == getSourcePiece(move)
      targetPiece == getTargetPiece(move)
      b1 == [P.board EXCEPT ![sourceSquare] = sourcePiece, ![targetSquare] = NO_PIECE]
      b2 == IF getCaptureFlag(move) # 0 THEN [b1 EXCEPT ![targetSquare] = targetPiece]
            ELSE b1
      ks == IF IsKing(b2[sourceSquare])
            THEN [P.kingSquare EXCEPT ![(1 - P.sideToMove) + 1] = sourceSquare]
            ELSE P.kingSquare
  IN  [P EXCEPT !.searchPly = P.searchPly - 1,
                !.gamePly = P.gamePly - 1,
                !.board = b2,
                !.kingSquare = ks,
                !.sideToMove = 1 - P.sideToMove,
                !.rule60 = ReadField(P.stateInfo[P.st].rule60, g),
                !.hashKey = ReadField(P.stateInfo[P.st].hashKey, g),
                !.st = P.stateInfo[P.st].previous]

\* variant of Mutate that increments rule60 on captures too
Mutate_AlwaysIncrement(P, move, newSt) ==
  LET sourceSquare == getSourceSquare(move)
      targetSquare == getTargetSquare(move)
      sourcePiece == getSourcePiece(move)
      si1 == [P.stateInfo EXCEPT ![P.st].hashKey = P.hashKey,
                                 ![P.st].rule60 = P.rule60]
      si2 == [si1 EXCEPT ![newSt].previous = P.st]
      b == [P.board EXCEPT ![targetSquare] = sourcePiece, ![sourceSquare] = NO_PIECE]
      ks == IF IsKing(b[targetSquare])
            THEN [P.kingSquare EXCEPT ![P.sideToMove + 1] = targetSquare]
            ELSE P.kingSquare
  IN  [P EXCEPT !.searchPly = P.searchPly + 1,
                !.gamePly = P.gamePly + 1,
                !.stateInfo = si2,
                !.st = newSt,
                !.board = b,
                !.rule60 = P.rule60 + 1,
                !.kingSquare = ks,
                !.sideToMove = 1 - P.sideToMove]

\* variant of Mutate that resets rule60 on pawn moves as well as on captures
Mutate_PawnResets(P, move, newSt) ==
  LET sourceSquare == getSourceSquare(move)
      targetSquare == getTargetSquare(move)
      sourcePiece == getSourcePiece(move)
      captureFlag == getCaptureFlag(move)
      si1 == [P.stateInfo EXCEPT ![P.st].hashKey = P.hashKey,
                                 ![P.st].rule60 = P.rule60]
      si2 == [si1 EXCEPT ![newSt].previous = P.st]
      b == [P.board EXCEPT ![targetSquare] = sourcePiece, ![sourceSquare] = NO_PIECE]
      ks == IF IsKing(b[targetSquare])
            THEN [P.kingSquare EXCEPT ![P.sideToMove + 1] = targetSquare]
            ELSE P.kingSquare
  IN  [P EXCEPT !.searchPly = P.searchPly + 1,
                !.gamePly = P.gamePly + 1,
                !.stateInfo = si2,
                !.st = newSt,
                !.board = b,
                !.rule60 = IF captureFlag # 0 \/ PieceTypeOf(sourcePiece) = PAWN
                           THEN 0 ELSE P.rule60 + 1,
                !.kingSquare = ks,
                !.sideToMove = 1 - P.sideToMove]

\* variant of Mutate that leaves the moved piece on the source square too
Mutate_KeepSource(P, move, newSt) ==
  LET sourceSquare == getSourceSquare(move)
      targetSquare == getTargetSquare(move)
      sourcePiece == getSourcePiece(move)
      captureFlag == getCaptureFlag(move)
      si1 == [P.stateInfo EXCEPT ![P.st].hashKey = P.hashKey,
                                 ![P.st].rule60 = P.rule60]
      si2 == [si1 EXCEPT ![newSt].previous = P.st]
      b == [P.board EXCEPT ![targetSquare] = sourcePiece]
      ks == IF IsKing(b[targetSquare])
            THEN [P.kingSquare EXCEPT ![P.sideToMove + 1] = targetSquare]
            ELSE P.kingSquare
  IN  [P EXCEPT !.searchPly = P.searchPly + 1,
                !.gamePly = P.gamePly + 1,
                !.stateInfo = si2,
                !.st = newSt,
                !.board = b,
                !.rule60 = IF captureFlag # 0 THEN 0 ELSE P.rule60 + 1,
                !.kingSquare = ks,
                !.sideToMove = 1 - P.sideToMove]

\* the Position after the mutation of make_move(move, newSt), before the
\* test of the mover's king; newSt is the index of the caller's record.
\* std::memcpy(&newSt, st, offsetof(StateInfo, hashKey)) copies 0 bytes.
Mutate(P, move, newSt) ==
  LET sourceSquare == getSourceSquare(move)
      targetSquare == getTargetSquare(move)
      sourcePiece == getSourcePiece(move)
      captureFlag == getCaptureFlag(move)
      si1 == [P.stateInfo EXCEPT ![P.st].hashKey = P.hashKey,
                                 ![P.st].rule60 = P.rule60]
      si2 == [si1 EXCEPT ![newSt].previous = P.st]
      b == [P.board EXCEPT ![targetSquare] = sourcePiece, ![sourceSquare] = NO_PIECE]
      ks == IF IsKing(b[targetSquare])
            THEN [P.kingSquare EXCEPT ![P.sideToMove + 1] = targetSquare]
            ELSE P.kingSquare
  IN  [P EXCEPT !.searchPly = P.searchPly + 1,
                !.gamePly = P.gamePly + 1,
                !.stateInfo = si2,
                !.st = newSt,
                !.board = b,
                !.rule60 = IF captureFlag # 0 THEN 0 ELSE P.rule60 + 1,
                !.kingSquare = ks,
                !.sideToMove = 1 - P.sideToMove]

\* variant of LeavesKingAttacked that asks for attacks by the mover's side
LeavesKingAttackedByMover(M) ==
  isSquareAttacked(M.board, M.kingSquare[(1 - M.sideToMove) + 1], 1 - M.sideToMove)

\* the test that ends make_move: the mover's king is attacked by the new
\* side to move
LeavesKingAttacked(M) ==
  isSquareAttacked(M.board, M.kingSquare[(1 - M.sideToMove) + 1], M.sideToMove)

\* Position::make_move(move, newSt): the returned flag and the Position
make_move(P, move, newSt, g) ==
  LET M == Mutate(P, move, newSt)
  IN  IF LeavesKingAttacked(M)
      THEN [ok |-> FALSE, pos |-> undo_move(M, move, g)]
      ELSE [ok |-> TRUE, pos |-> M]

\* Position::do_null_move(newSt): the body only reads newSt.hashKey
do_null_move(P, newSt) == P

\* Position::undo_null_move(): the body is empty
undo_null_move(P) == P

-----------------------------------------------------------------------------
(* State: the Position, the StateInfo records (0 is the record given to    *)
(* set, k is the local record of the driver frame k - 1), the moves of the *)
(* enclosing driver frames, and the history the properties refer to        *)

Pos ==
  [board |-> board, sideToMove |-> sideToMove, kingSquare |-> kingSquare,
   searchPly |-> searchPly, gamePly |-> gamePly, rule60 |-> rule60,
   hashKey |-> hashKey, st |-> st, stateInfo |-> stateInfo]

\* the fields a caller can observe, kept to compare with a later state
Snapshot(P) ==
  [board |-> P.board, sideToMove |-> P.sideToMove, kingSquare |-> P.kingSquare,
   searchPly |-> P.searchPly, gamePly |-> P.gamePly, rule60 |-> P.rule60,
   hashKey |-> P.hashKey, st |-> P.st]

\* values an uninitialised StateInfo field may read as
Indeterminate == 0 .. MaxIndet

\* a local record nothing was written to (StateInfo st;)
FreshStateInfo ==
  [hashKey |-> INDETERMINATE, rule60 |-> INDETERMINATE, previous |-> NULLPTR]

\* the values a read of the fields of record k may yield
ReadChoices(k) ==
  IF stateInfo[k].rule60 = INDETERMINATE \/ stateInfo[k].hashKey = INDETERMINATE
  THEN Indeterminate ELSE {0}

Depth == Len(moveStack)

Install(P) ==
  /\ board' = P.board
  /\ sideToMove' = P.sideToMove
  /\ kingSquare' = P.kingSquare
  /\ searchPly' = P.searchPly
  /\ gamePly' = P.gamePly
  /\ rule60' = P.rule60
  /\ hashKey' = P.hashKey
  /\ st' = P.st
  /\ stateInfo' = P.stateInfo

\* the runs of the driver: position <setup>, then go perft <depth>
Runs ==
  {[fenStr |-> XQ_START_FEN, depth |-> StartDepth],
   [fenStr |-> FEN_PINNED_PAWN, depth |-> MaxDepth],
   [fenStr |-> FEN_ROOK_CHECK, depth |-> MaxDepth],
   [fenStr |-> FEN_PAWN_CHECK, depth |-> MaxDepth],
   [fenStr |-> FEN_ALL_PIECES, depth |-> StartDepth]}

MaxFrames == Max(MaxDepth, StartDepth)

\* the state after position <run.fenStr>, before go perft <run.depth>
InitRun(run) ==
  \E P \in {set(run.fenStr)} :
    /\ board = P.board
    /\ sideToMove = P.sideToMove
    /\ kingSquare = P.kingSquare
    /\ searchPly = P.searchPly
    /\ gamePly = P.gamePly
    /\ rule60 = P.rule60
    /\ hashKey = P.hashKey
    /\ st = 0
    /\ stateInfo = [k \in 0 .. MaxFrames |-> IF k = 0 THEN P.si ELSE FreshStateInfo]
    /\ depth = run.depth
    /\ moveStack = <<>>
    /\ saved = <<>>
    /\ last = [op |-> "set", ok |-> TRUE, move |-> MOVE_NONE,
               pre |-> Snapshot(P @@ [st |-> 0]), fenStr |-> run.fenStr,
               reset |-> FALSE, pure |-> TRUE]

\* no field tuple is being encoded
NoEncoding == [stage |-> "idle"]

\* no counting run of perft is in progress
NoPerft == [stage |-> "idle"]

Init ==
  /\ \E run \in Runs : InitRun(run)
  /\ enc = NoEncoding
  /\ perft = NoPerft

\* the pseudo-legal list the driver iterates over
MoveList == generateMoves(board, sideToMove, FALSE)

\* perftDriver: make_move returned true and the callee frame is entered
MakeMoveApplied ==
  /\ Depth < depth
  /\ rule60 < MaxRule60
  /\ \E ml \in {MoveList} :
       \E k \in 1 .. Len(ml) :
         \E r \in {make_move(Pos, ml[k], Depth + 1, 0)} :
           /\ r.ok
           /\ Install(r.pos)
           /\ moveStack' = Append(moveStack, ml[k])
           /\ saved' = Append(saved, Snapshot(Pos))
           /\ UNCHANGED <<depth, enc, perft>>
           /\ last' = [op |-> "make_move", ok |-> TRUE, move |-> ml[k],
                       pre |-> Snapshot(Pos), pure |-> last.pure]

\* perftDriver: make_move returned false and the loop continues
MakeMoveRejected ==
  /\ Depth < depth
  /\ rule60 < MaxRule60
  /\ \E ml \in {MoveList} :
       \E k \in 1 .. Len(ml), g \in ReadChoices(Depth + 1) :
         \E r \in {make_move(Pos, ml[k], Depth + 1, g)} :
           /\ ~r.ok
           /\ Install(r.pos)
           /\ last' = [op |-> "make_move", ok |-> FALSE, move |-> ml[k],
                       pre |-> Snapshot(Pos), pure |-> FALSE]
           /\ UNCHANGED <<depth, moveStack, saved, enc, perft>>

\* perftDriver: the callee frame has returned (its local record is gone) and
\* the caller undoes its move
UndoMove ==
  /\ Depth > 0
  /\ \E g \in ReadChoices(st) :
       \E P \in {undo_move(Pos, moveStack[Depth], g)} :
         /\ Install(IF Depth + 1 <= MaxFrames
                    THEN [P EXCEPT !.stateInfo[Depth + 1] = FreshStateInfo]
                    ELSE P)
         /\ UNCHANGED <<depth, enc, perft>>
         /\ moveStack' = SubSeq(moveStack, 1, Depth - 1)
         /\ saved' = SubSeq(saved, 1, Depth - 1)
         /\ last' = [op |-> "undo_move", ok |-> TRUE, move |-> MOVE_NONE,
                     pre |-> saved[Depth], pure |-> FALSE]

\* position startpos after the driver has returned: Position::set on the
\* standard start string, whatever the Position holds
SetStartPosition ==
  /\ Depth = 0
  /\ \E P \in {set(XQ_START_FEN)} :
       /\ Install(P @@ [st |-> 0,
                        stateInfo |-> [k \in 0 .. MaxFrames |->
                                         IF k = 0 THEN P.si ELSE FreshStateInfo]])
       /\ depth' = StartDepth
       /\ last' = [op |-> "set", ok |-> TRUE, move |-> MOVE_NONE,
                   pre |-> Snapshot(P @@ [st |-> 0]), fenStr |-> XQ_START_FEN,
                   reset |-> TRUE, pure |-> TRUE, prev |-> Snapshot(Pos)]
       /\ UNCHANGED <<moveStack, saved, enc, perft>>

\* do_null_move has no caller in the sources; it is called here with the
\* record of the top-level frame, outside any make_move/undo_move pair
DoNullMove ==
  /\ Depth = 0
  /\ last.op # "do_null_move"
  /\ Install(do_null_move(Pos, Depth + 1))
  /\ last' = [op |-> "do_null_move", ok |-> TRUE, move |-> MOVE_NONE,
              pre |-> Snapshot(Pos), pure |-> FALSE]
  /\ UNCHANGED <<depth, moveStack, saved, enc, perft>>

\* the undo_null_move that pairs with the last do_null_move
UndoNullMove ==
  /\ last.op = "do_null_move"
  /\ Install(undo_null_move(Pos))
  /\ last' = [op |-> "undo_null_move", ok |-> TRUE, move |-> MOVE_NONE,
              pre |-> last.pre, pure |-> FALSE]
  /\ UNCHANGED <<depth, moveStack, saved, enc, perft>>

Next ==
  \/ MakeMoveApplied
  \/ MakeMoveRejected
  \/ UndoMove
  \/ SetStartPosition
  \/ DoNullMove
  \/ UndoNullMove

Spec == Init /\ [][Next]_vars

-----------------------------------------------------------------------------
(* perft and perftDriver, run to completion on the standard starting       *)
(* layout: perft.frames holds the move list and the loop position of each  *)
(* active frame, perft.nodes_cnt the counter of leaves                     *)

\* the depths perft is called with
PerftDepths == 1 .. MaxFrames

\* position startpos, then the call perft(pos, depth): nodes_cnt = 0 and the
\* loop of perft over the pseudo-legal list begins
PerftInit ==
  /\ \E d \in PerftDepths : InitRun([fenStr |-> XQ_START_FEN, depth |-> d])
  /\ enc = NoEncoding
  /\ perft = [stage |-> "run", nodes_cnt |-> 0,
              frames |-> <<[moves |-> MoveList, i |-> 1]>>]

\* the innermost frame whose loop is running
Top == perft.frames[Len(perft.frames)]

\* the innermost frame is at a move of its list
Looping ==
  /\ perft.stage = "run"
  /\ Len(perft.frames) = Depth + 1
  /\ Top.i <= Len(Top.moves)

\* do_move returned true: perftDriver(pos, depth - 1) is called; with depth
\* 0 it counts the leaf and returns, otherwise its loop begins
PerftApply ==
  /\ Looping
  /\ \E r \in {make_move(Pos, Top.moves[Top.i], Depth + 1, 0)} :
       /\ r.ok
       /\ Install(r.pos)
       /\ moveStack' = Append(moveStack, Top.moves[Top.i])
       /\ perft' = IF depth - (Depth + 1) = 0
                   THEN [perft EXCEPT !.nodes_cnt = @ + 1]
                   ELSE [perft EXCEPT !.frames =
                           Append(@, [moves |-> generateMoves(r.pos.board,
                                                              r.pos.sideToMove, FALSE),
                                      i |-> 1])]
       /\ UNCHANGED <<depth, saved, last, enc>>

\* do_move returned false: continue with the next move of the list
PerftReject ==
  /\ Looping
  /\ \E g \in ReadChoices(Depth + 1) :
       \E r \in {make_move(Pos, Top.moves[Top.i], Depth + 1, g)} :
         /\ ~r.ok
         /\ Install(r.pos)
         /\ perft' = [perft EXCEPT !.frames[Len(perft.frames)].i = @ + 1]
         /\ UNCHANGED <<depth, moveStack, saved, last, enc>>

\* perftDriver has returned (its local record is gone): the caller undoes
\* its move and steps to the next move of its list
PerftUndo ==
  /\ perft.stage = "run"
  /\ Depth > 0
  /\ \/ Len(perft.frames) = Depth
     \/ Len(perft.frames) = Depth + 1 /\ Top.i > Len(Top.moves)
  /\ \E g \in ReadChoices(st) :
       \E P \in {undo_move(Pos, moveStack[Depth], g)} :
         /\ Install(IF Depth + 1 <= MaxFrames
                    THEN [P EXCEPT !.stateInfo[Depth + 1] = FreshStateInfo]
                    ELSE P)
         /\ moveStack' = SubSeq(moveStack, 1, Depth - 1)
         /\ perft' = [perft EXCEPT !.frames =
                        [k \in 1 .. Depth |->
                           IF k = Depth THEN [perft.frames[k] EXCEPT !.i = @ + 1]
                           ELSE perft.frames[k]]]
         /\ UNCHANGED <<depth, saved, last, enc>>

\* the loop of perft is over: return nodes_cnt
PerftReturn ==
  /\ perft.stage = "run"
  /\ Depth = 0
  /\ Top.i > Len(Top.moves)
  /\ perft' = [perft EXCEPT !.stage = "done"]
  /\ UNCHANGED <<board, sideToMove, kingSquare, searchPly, gamePly, rule60,
                 hashKey, st, stateInfo, depth, moveStack, saved, last, enc>>

PerftNext == PerftApply \/ PerftReject \/ PerftUndo \/ PerftReturn

PerftSpec == PerftInit /\ [][PerftNext]_vars

-----------------------------------------------------------------------------
(* The move encoding on its own: two field tuples are drawn, encoded by    *)
(* move_encode and decoded by the five getters                             *)

\* squares at both ends of the range and on both sides of bit 7
EncSquares == {0, 1, 127, 128, 153}

\* the piece tags a move can carry: empty or one of the 14 pieces
EncPieces == NO_PIECE .. B_KING

\* first tuple: <<source, target, sourcePiece, targetPiece, captureFlag>>
EncTuples ==
  EncSquares \X EncSquares \X EncPieces \X {NO_PIECE, W_KING, B_KING} \X {0, 1}

\* second tuple, to compare encodings with
EncOthers == {0, 128} \X {0, 128} \X {NO_PIECE, B_KING} \X {NO_PIECE, B_KING} \X {0, 1}

EncodeTuple(t) == move_encode(t[1], t[2], t[3], t[4], t[5])

DecodeMove(move) ==
  <<getSourceSquare(move), getTargetSquare(move), getSourcePiece(move),
    getTargetPiece(move), getCaptureFlag(move)>>

EncInit ==
  /\ InitRun([fenStr |-> XQ_START_FEN, depth |-> StartDepth])
  /\ perft = NoPerft
  /\ \E t1 \in EncTuples, t2 \in EncOthers :
       enc = [stage |-> "drawn", t1 |-> t1, t2 |-> t2,
              m1 |-> MOVE_NONE, m2 |-> MOVE_NONE, d1 |-> <<>>, d2 |-> <<>>]

EncodeStep ==
  /\ enc.stage = "drawn"
  /\ enc' = [enc EXCEPT !.stage = "encoded",
                        !.m1 = EncodeTuple(enc.t1), !.m2 = EncodeTuple(enc.t2)]
  /\ UNCHANGED <<board, sideToMove, kingSquare, searchPly, gamePly, rule60,
                 hashKey, st, stateInfo, depth, moveStack, saved, last, perft>>

DecodeStep ==
  /\ enc.stage = "encoded"
  /\ enc' = [enc EXCEPT !.stage = "decoded",
                        !.d1 = DecodeMove(enc.m1), !.d2 = DecodeMove(enc.m2)]
  /\ UNCHANGED <<board, sideToMove, kingSquare, searchPly, gamePly, rule60,
                 hashKey, st, stateInfo, depth, moveStack, saved, last, perft>>

EncNext == EncodeStep \/ DecodeStep

EncSpec == EncInit /\ [][EncNext]_vars

-----------------------------------------------------------------------------
(* Properties.  Helpers are geometric and do not use the movement tables.  *)

Colors == {WHITE, BLACK}

Min(a, b) == IF a <= b THEN a ELSE b

FileOf(s) == s % FILE_NB
RankOf(s) == s \div FILE_NB

\* the board after the piece of move went from its source to its target
Relocated(b, move) ==
  [b EXCEPT ![getTargetSquare(move)] = getSourcePiece(move),
            ![getSourceSquare(move)] = NO_PIECE]

\* the squares strictly between two squares of one rank or one file
StrictlyBetween(a, t) ==
  LET lo == Min(a, t)
      hi == Max(a, t)
  IN  IF RankOf(a) = RankOf(t) THEN {s \in Squares : lo < s /\ s < hi}
      ELSE IF FileOf(a) = FileOf(t)
      THEN {s \in Squares : lo < s /\ s < hi /\ FileOf(s) = FileOf(a)}
      ELSE {}

\* number of pieces strictly between two squares
Screens(b, a, t) == Cardinality({s \in StrictlyBetween(a, t) : b[s] # NO_PIECE})

\* the two kings stand on one file with no piece between them
FacingKings(b, ks) ==
  /\ FileOf(ks[1]) = FileOf(ks[2])
  /\ Screens(b, ks[1], ks[2]) = 0

\* the position fields undo_move is to restore, other than the two saved
\* in the StateInfo record
SameFrame(pre) ==
  /\ board = pre.board
  /\ sideToMove = pre.sideToMove
  /\ kingSquare = pre.kingSquare
  /\ searchPly = pre.searchPly
  /\ gamePly = pre.gamePly
  /\ st = pre.st

\* C1: after undo_move of a move that make_move applied, the board array,
\* the side to move, both king squares, both ply counters and the head of
\* the undo chain have the values they had before that make_move.
C1_UndoRestoresFrame ==
  last.op = "undo_move" => SameFrame(last.pre)

\* C1: an undo on the standard starting layout has taken place
C1_Witness ==
  /\ last.op = "undo_move"
  /\ depth = StartDepth
  /\ Depth = 0
  /\ SameFrame(last.pre)

\* C2 (as claimed): after undo_move of a move that make_move applied, rule60
\* and hashKey have the values they had before that make_move, whatever the
\* caller's record held and whether or not deeper pairs ran in between.
C2_UndoRestoresCounters ==
  last.op = "undo_move" =>
    /\ rule60 = last.pre.rule60
    /\ hashKey = last.pre.hashKey

\* C3 (as claimed): when make_move returns false, the board, side to move,
\* king squares, ply counters, rule60, hashKey and the head of the undo chain
\* equal their values before the call.
C3_RejectedLeavesPosition ==
  (last.op = "make_move" /\ ~last.ok) =>
    /\ SameFrame(last.pre)
    /\ rule60 = last.pre.rule60
    /\ hashKey = last.pre.hashKey

\* the square of the mover's king once the move of last is on the board
KingAfter(pre, move) ==
  IF IsKing(getSourcePiece(move)) THEN getTargetSquare(move)
  ELSE pre.kingSquare[pre.sideToMove + 1]

\* isSquareAttacked says the mover's king is attacked on the relocated board
KingAttackedAfter(pre, move) ==
  isSquareAttacked(Relocated(pre.board, move), KingAfter(pre, move),
                   1 - pre.sideToMove)

\* C4: make_move on a generated move returns false exactly when, on the
\* board with the piece relocated from source to target, isSquareAttacked
\* reports the mover's king square attacked by the other side; when it
\* returns true the relocation, the side flip, the king square and the ply
\* increments are kept.
C4_RejectedIffKingAttacked ==
  last.op = "make_move" =>
    /\ last.ok <=> ~KingAttackedAfter(last.pre, last.move)
    /\ last.ok =>
         /\ board = Relocated(last.pre.board, last.move)
         /\ sideToMove = 1 - last.pre.sideToMove
         /\ kingSquare[last.pre.sideToMove + 1] = KingAfter(last.pre, last.move)
         /\ searchPly = last.pre.searchPly + 1
         /\ gamePly = last.pre.gamePly + 1

\* C4: a move was rejected although the kings would not have faced each
\* other: a rook, cannon, knight or pawn attacked the mover's king
C4_Witness ==
  /\ last.op = "make_move"
  /\ ~last.ok
  /\ ~FacingKings(Relocated(last.pre.board, last.move),
                  [last.pre.kingSquare EXCEPT ![last.pre.sideToMove + 1] =
                     KingAfter(last.pre, last.move)])

C6_EncodingBijective ==
  enc.stage = "decoded" =>
    /\ enc.d1 = enc.t1
    /\ enc.d2 = enc.t2
    /\ (enc.t1 # enc.t2 => enc.m1 # enc.m2)

\* C6: two different tuples with fields at the top of their ranges were
\* encoded and decoded
C6_Witness ==
  /\ enc.stage = "decoded"
  /\ enc.t1 = <<153, 128, B_KING, B_KING, 1>>
  /\ enc.t2 = <<128, 128, B_KING, B_KING, 1>>
  /\ enc.m1 # enc.m2

\* the step a pawn of color c takes forward
Forward(c) == IF c = WHITE THEN NORTH ELSE SOUTH

\* moves whose target isSquareAttacked reports: every rook, knight and king
\* move, cannon captures, pawn steps forward and towards EAST
ReportedByDetector(c, move) ==
  LET pieceType == PieceTypeOf(getSourcePiece(move))
      step == getTargetSquare(move) - getSourceSquare(move)
  IN  \/ pieceType \in {ROOK, KNIGHT, KING}
      \/ pieceType = CANNON /\ getCaptureFlag(move) = 1
      \/ pieceType = PAWN /\ step \in {Forward(c), EAST}

C8_BorderIsSentinel ==
  /\ \A s \in Squares \ BoardSquares : board[s] = OFFBOARD
  /\ \A c \in Colors :
       \A ml \in {generateMoves(board, c, FALSE)} :
         \A k \in 1 .. Len(ml) :
           /\ getSourceSquare(ml[k]) \in BoardSquares
           /\ getTargetSquare(ml[k]) \in BoardSquares

\* C8: after an undo, a piece on the edge file next to the border has moves
C8_Witness ==
  /\ last.op = "undo_move"
  /\ \E ml \in {MoveList} :
       \E k \in 1 .. Len(ml) :
         /\ FileOf(getSourceSquare(ml[k])) = 1
         /\ board[getSourceSquare(ml[k]) + WEST] = OFFBOARD

\* C9: every generated cannon move stays on its rank or file and is either
\* a quiet move to an empty square with no piece strictly between, or a
\* capture of an enemy piece with exactly one piece strictly between; hence
\* no move goes to or beyond a friendly piece that follows the screen.
C9_CannonScreens ==
  \A c \in Colors :
    \A ml \in {generateMoves(board, c, FALSE)} :
      \A k \in 1 .. Len(ml) :
        PieceTypeOf(getSourcePiece(ml[k])) = CANNON =>
          LET a == getSourceSquare(ml[k])
              t == getTargetSquare(ml[k])
          IN  /\ a # t
              /\ RankOf(a) = RankOf(t) \/ FileOf(a) = FileOf(t)
              /\ \/ /\ getCaptureFlag(ml[k]) = 0
                    /\ board[t] = NO_PIECE
                    /\ Screens(board, a, t) = 0
                 \/ /\ getCaptureFlag(ml[k]) = 1
                    /\ board[t] # NO_PIECE
                    /\ PieceColorOf(board[t]) = 1 - c
                    /\ Screens(board, a, t) = 1

\* C9: the cannon of the side to move has a capture over one screen, and on
\* another ray a friendly piece directly follows its screen
C9_Witness ==
  \E ml \in {MoveList} :
    \E k \in 1 .. Len(ml) :
      /\ PieceTypeOf(getSourcePiece(ml[k])) = CANNON
      /\ getCaptureFlag(ml[k]) = 1
      /\ Screens(board, getSourceSquare(ml[k]), getTargetSquare(ml[k])) = 1
      /\ \E t \in BoardSquares :
           /\ RankOf(t) = RankOf(getSourceSquare(ml[k]))
           /\ Screens(board, getSourceSquare(ml[k]), t) = 1
           /\ PieceColorOf(board[t]) = sideToMove

\* a knight jump: two squares along one axis and one along the other
IsKnightJump(a, t) ==
  LET df == FileOf(t) - FileOf(a)
      dr == RankOf(t) - RankOf(a)
  IN  \/ df * df = 4 /\ dr * dr = 1
      \/ df * df = 1 /\ dr * dr = 4

\* the square next to the knight in the direction of the long part of the jump
KnightLeg(a, t) ==
  LET df == FileOf(t) - FileOf(a)
      dr == RankOf(t) - RankOf(a)
  IN  IF df = 2 THEN a + 1
      ELSE IF df = 0 - 2 THEN a - 1
      ELSE IF dr = 2 THEN a + FILE_NB
      ELSE a - FILE_NB

\* C10: every generated knight move is a knight jump whose leg square, the
\* square orthogonally next to the knight towards the landing square, is
\* empty; no knight move passes an occupied or off-board leg.
C10_KnightLegEmpty ==
  \A c \in Colors :
    \A ml \in {generateMoves(board, c, FALSE)} :
      \A k \in 1 .. Len(ml) :
        PieceTypeOf(getSourcePiece(ml[k])) = KNIGHT =>
          /\ IsKnightJump(getSourceSquare(ml[k]), getTargetSquare(ml[k]))
          /\ board[KnightLeg(getSourceSquare(ml[k]), getTargetSquare(ml[k]))] = NO_PIECE

\* C10: a knight of the side to move has a move although the square next to
\* it on one side is occupied and the one on another side is off-board
C10_Witness ==
  \E ml \in {MoveList} :
    \E k \in 1 .. Len(ml) :
      /\ PieceTypeOf(getSourcePiece(ml[k])) = KNIGHT
      /\ \E d \in {1, 0 - 1, FILE_NB, 0 - FILE_NB} :
           board[getSourceSquare(ml[k]) + d] \notin {NO_PIECE, OFFBOARD}
      /\ \E d \in {1, 0 - 1, FILE_NB, 0 - FILE_NB} :
           board[getSourceSquare(ml[k]) + d] = OFFBOARD

\* the 3x3 palace of color c: files d..f, ranks 0..2 (red) or 7..9 (black)
InPalace(c, s) ==
  /\ FileOf(s) >= 4 /\ FileOf(s) <= 6
  /\ IF c = WHITE THEN RankOf(s) >= 2 /\ RankOf(s) <= 4
     ELSE RankOf(s) >= 9 /\ RankOf(s) <= 11

\* squared file and rank distances of two squares
FileDist2(a, t) == (FileOf(t) - FileOf(a)) * (FileOf(t) - FileOf(a))
RankDist2(a, t) == (RankOf(t) - RankOf(a)) * (RankOf(t) - RankOf(a))

\* C11: every generated king move is one orthogonal step and every generated
\* advisor move is one diagonal step; its target lies in the palace of the
\* mover's color and holds no piece of the mover's color.
C11_PalaceMoves ==
  \A c \in Colors :
    \A ml \in {generateMoves(board, c, FALSE)} :
      \A k \in 1 .. Len(ml) :
        LET a == getSourceSquare(ml[k])
            t == getTargetSquare(ml[k])
            pieceType == PieceTypeOf(getSourcePiece(ml[k]))
        IN  /\ pieceType = KING =>
                 /\ FileDist2(a, t) + RankDist2(a, t) = 1
                 /\ InPalace(c, t)
                 /\ PieceColorOf(board[t]) # c
            /\ pieceType = ADVISOR =>
                 /\ FileDist2(a, t) = 1 /\ RankDist2(a, t) = 1
                 /\ InPalace(c, t)
                 /\ PieceColorOf(board[t]) # c

\* C11: an advisor of the side to move has a move, and one of its diagonal
\* neighbours is an empty board square outside the palace; the king has a
\* move too
C11_Witness ==
  \E ml \in {MoveList} :
    /\ \E k \in 1 .. Len(ml) :
         /\ PieceTypeOf(getSourcePiece(ml[k])) = ADVISOR
         /\ \E t \in BoardSquares :
              /\ FileDist2(getSourceSquare(ml[k]), t) = 1
              /\ RankDist2(getSourceSquare(ml[k]), t) = 1
              /\ board[t] = NO_PIECE
              /\ ~InPalace(sideToMove, t)
    /\ \E k \in 1 .. Len(ml) : PieceTypeOf(getSourcePiece(ml[k])) = KING

\* C12 (as claimed): for both colors kingSquare[c] is the square, and the
\* only square, whose board cell holds the king of color c.
C12_KingCacheMatchesBoard ==
  \A c \in Colors :
    \A s \in BoardSquares :
      board[s] = PieceOf(c, KING) <=> s = kingSquare[c + 1]

\* C14 (as claimed): do_null_move flips the side to move and leaves the
\* board and the king cache as they were; the undo_null_move that follows
\* flips the side back, so that the pair restores the position.
C14_NullMoveFlipsSide ==
  /\ last.op = "do_null_move" =>
       /\ sideToMove = 1 - last.pre.sideToMove
       /\ board = last.pre.board
       /\ kingSquare = last.pre.kingSquare
  /\ last.op = "undo_null_move" =>
       /\ sideToMove = last.pre.sideToMove
       /\ board = last.pre.board
       /\ kingSquare = last.pre.kingSquare

\* the piece types of the back rank, file a to file i
BackRank == <<ROOK, KNIGHT, BISHOP, ADVISOR, KING, ADVISOR, BISHOP, KNIGHT, ROOK>>

\* the standard starting layout, cell by cell
StandardLayout ==
  [s \in Squares |->
     LET f == FileOf(s)
         r == RankOf(s) - 2
     IN  IF f < 1 \/ f > 9 \/ r < 0 \/ r > 9 THEN OFFBOARD
         ELSE IF r = 0 THEN PieceOf(WHITE, BackRank[f])
         ELSE IF r = 9 THEN PieceOf(BLACK, BackRank[f])
         ELSE IF r = 2 /\ f \in {2, 8} THEN W_CANNON
         ELSE IF r = 7 /\ f \in {2, 8} THEN B_CANNON
         ELSE IF r = 3 /\ f \in {1, 3, 5, 7, 9} THEN W_PAWN
         ELSE IF r = 6 /\ f \in {1, 3, 5, 7, 9} THEN B_PAWN
         ELSE NO_PIECE]

\* C15: after set on the standard start string the board is the standard
\* layout (back ranks, cannons, pawns, every other board cell empty, every
\* border cell the sentinel), red is to move and the king cache holds e0 and
\* e9, whatever the Position held before.
C15_SetStartLayout ==
  last.op = "set" /\ last.fenStr = XQ_START_FEN =>
    /\ board = StandardLayout
    /\ sideToMove = WHITE
    /\ kingSquare = <<make_square(5, 2), make_square(5, 11)>>

\* C15: set has rebuilt a Position that held another layout, black to move
\* and other king squares
C15_Witness ==
  /\ last.op = "set" /\ last.fenStr = XQ_START_FEN /\ last.reset
  /\ last.prev.board # board
  /\ last.prev.sideToMove = BLACK
  /\ last.prev.kingSquare[1] # kingSquare[1]
  /\ last.prev.kingSquare[2] # kingSquare[2]
  /\ last.prev.searchPly + last.prev.rule60 > 0

\* the index of the first space of str, Len(str) + 1 if there is none
FirstSpace(str) ==
  IF \E i \in 1 .. Len(str) : str[i] = " "
  THEN CHOOSE i \in 1 .. Len(str) :
         str[i] = " " /\ \A j \in 1 .. (i - 1) : str[j] # " "
  ELSE Len(str) + 1

\* the n-th space-separated field of a setup string
RECURSIVE FenField(_, _)
FenField(str, n) ==
  IF n = 1 THEN SubSeq(str, 1, FirstSpace(str) - 1)
  ELSE FenField(SubSeq(str, FirstSpace(str) + 1, Len(str)), n - 1)

\* the number a field of decimal digits denotes
RECURSIVE FieldValue(_)
FieldValue(d) ==
  IF d = <<>> THEN 0
  ELSE 10 * FieldValue(SubSeq(d, 1, Len(d) - 1)) + DigitValue(d[Len(d)])

\* C16 (as claimed): after set on "<placement> <color> - - <clock>
\* <moveNumber>" rule60_count() is <clock> and game_ply() is
\* max(2 * (<moveNumber> - 1), 0), plus 1 if black is to move.
C16_SetReadsClockAndMoveNumber ==
  last.op = "set" =>
    \A str \in {last.fenStr} :
      /\ FenField(str, 3) = <<"-">> /\ FenField(str, 4) = <<"-">>
      /\ rule60 = FieldValue(FenField(str, 5))
      /\ gamePly = Max(2 * (FieldValue(FenField(str, 6)) - 1), 0)
                     + (IF FenField(str, 2) = <<"b">> THEN 1 ELSE 0)

\* C17: a successful make_move flips the side to move and adds one to
\* searchPly and gamePly, an undo_move flips it and takes one from both, and
\* with k moves applied and not undone the side to move is the initial one
\* iff k is even and both counters are k above their initial values.
C17_PliesAndSideFollowApplies ==
  [][/\ Len(moveStack') = Len(moveStack) + 1 =>
          /\ sideToMove' = 1 - sideToMove
          /\ searchPly' = searchPly + 1
          /\ gamePly' = gamePly + 1
     /\ Len(moveStack') = Len(moveStack) - 1 =>
          /\ sideToMove' = 1 - sideToMove
          /\ searchPly' = searchPly - 1
          /\ gamePly' = gamePly - 1
     /\ Len(moveStack') > 0 =>
          /\ searchPly' = saved'[1].searchPly + Len(moveStack')
          /\ gamePly' = saved'[1].gamePly + Len(moveStack')
          /\ (sideToMove' = saved'[1].sideToMove) <=> (Len(moveStack') % 2 = 0)]_vars

\* C17: two moves were applied, the second was undone and the first is
\* still on the board
C17_Witness ==
  /\ last.op = "undo_move"
  /\ Depth = 1
  /\ sideToMove # saved[1].sideToMove
  /\ searchPly = saved[1].searchPly + 1
  /\ gamePly = saved[1].gamePly + 1

\* C18: after a successful make_move rule60 is 0 if the move carries the
\* capture flag and one more than before the call otherwise.
C18_CounterAfterApply ==
  last.op = "make_move" /\ last.ok =>
    rule60 = IF getCaptureFlag(last.move) # 0 THEN 0 ELSE last.pre.rule60 + 1

\* C18: a capture was applied in a position whose counter was not 0
C18_Witness ==
  /\ last.op = "make_move" /\ last.ok
  /\ getCaptureFlag(last.move) # 0
  /\ last.pre.rule60 > 0
  /\ rule60 = 0

\* the greatest element of a non-empty set of numbers
MaxOf(S) == CHOOSE x \in S : \A y \in S : y <= x

\* the plies of ms played after the last ply in resets, all of them if
\* resets is empty
PliesSince(ms, resets) ==
  IF resets = {} THEN Len(ms) ELSE Len(ms) - MaxOf(resets)

CaptureIndices(ms) == {k \in 1 .. Len(ms) : getCaptureFlag(ms[k]) # 0}

PawnMoveIndices(ms) ==
  {k \in 1 .. Len(ms) : PieceTypeOf(getSourcePiece(ms[k])) = PAWN}

C20_RecordHoldsPriorState ==
  last.op = "make_move" /\ last.ok =>
    /\ st = Depth
    /\ stateInfo[st].previous = last.pre.st
    /\ \A g \in ReadChoices(st) :
         /\ ReadField(stateInfo[st].hashKey, g) = last.pre.hashKey
         /\ ReadField(stateInfo[st].rule60, g) = last.pre.rule60

\* the counts of leaves perft returns from the standard starting layout
\* are 44 at depth 1 and 1920 at depth 2
PerftReferenceCounts ==
  perft.stage = "done" =>
    /\ depth = 1 => perft.nodes_cnt = 44
    /\ depth = 2 => perft.nodes_cnt = 1920

\* when perft returns, the board, the side to move, the king cache, the ply
\* counters and the chain head are those of the starting position
PerftRestoresFrame == perft.stage = "done" => SameFrame(last.pre)

\* C13 (as claimed): perft from the standard starting layout returns 44 at
\* depth 1 and 1920 at depth 2, and when it returns the position equals the
\* starting position.
C13_PerftCountsAndRestores ==
  perft.stage = "done" =>
    /\ depth = 1 => perft.nodes_cnt = 44
    /\ depth = 2 => perft.nodes_cnt = 1920
    /\ Snapshot(Pos) = last.pre

\* the moves of ml that start on square q, in the order of ml
MovesFrom(ml, q) == SelectSeq(ml, LAMBDA m : getSourceSquare(m) = q)

\* the target squares of the moves of ml
Targets(ml) == {getTargetSquare(ml[k]) : k \in 1 .. Len(ml)}

\* the moves of ml that carry the capture flag, in the order of ml
Captures(ml) == SelectSeq(ml, LAMBDA m : getCaptureFlag(m) = 1)

\* C21: for both colors, the list generated with onlyCaptures = true is the
\* subsequence, in the same order, of the moves of the list generated with
\* onlyCaptures = false whose capture flag is set.
C21_CapturesAreSubsequence ==
  \A c \in Colors :
    generateMoves(board, c, TRUE) = Captures(generateMoves(board, c, FALSE))

\* C21: the captures-only list of the side to move holds a rook capture
\* and a cannon capture behind empty squares, and the full list also holds
\* quiet moves
C21_Witness ==
  \E cl \in {generateMoves(board, sideToMove, TRUE)} :
    /\ \A pt \in {ROOK, CANNON} :
         \E k \in 1 .. Len(cl) :
           /\ PieceTypeOf(getSourcePiece(cl[k])) = pt
           /\ \E u \in StrictlyBetween(getSourceSquare(cl[k]), getTargetSquare(cl[k])) :
                board[u] = NO_PIECE
    /\ Len(cl) < Len(MoveList)

\* C22: for both colors and every generated move, the source square holds a
\* piece of that color and the source-piece field is that piece, the target
\* square is on the board and holds no piece of that color, the capture flag
\* is 1 iff the target square holds a piece of the other color, and the
\* captured-piece field is the content of the target square.
C22_MoveFieldsMatchBoard ==
  \A c \in Colors :
    \A ml \in {generateMoves(board, c, FALSE)} :
      \A k \in 1 .. Len(ml) :
        LET a == getSourceSquare(ml[k])
            t == getTargetSquare(ml[k])
        IN  /\ a \in BoardSquares
            /\ PieceColorOf(board[a]) = c
            /\ getSourcePiece(ml[k]) = board[a]
            /\ t \in BoardSquares
            /\ PieceColorOf(board[t]) # c
            /\ (getCaptureFlag(ml[k]) = 1) <=> (PieceColorOf(board[t]) = 1 - c)
            /\ getTargetPiece(ml[k]) = board[t]

\* C22: the list of the side to move holds a capture and a quiet move, and
\* a piece of the side to move stands next to another piece of that side
C22_Witness ==
  \E ml \in {MoveList} :
    /\ \E k \in 1 .. Len(ml) : getCaptureFlag(ml[k]) = 1
    /\ \E k \in 1 .. Len(ml) : getCaptureFlag(ml[k]) = 0
    /\ \E a \in BoardSquares :
         /\ PieceTypeOf(board[a]) = ROOK
         /\ PieceColorOf(board[a]) = sideToMove
         /\ a + 1 \in BoardSquares
         /\ PieceColorOf(board[a + 1]) = sideToMove

\* the squares of the rank and the file of q a rook of color c reaches:
\* no piece stands in between and no piece of color c on the square itself
RookTargets(b, c, q) ==
  {t \in BoardSquares :
     /\ t # q
     /\ FileOf(t) = FileOf(q) \/ RankOf(t) = RankOf(q)
     /\ PieceColorOf(b[t]) # c
     /\ Screens(b, q, t) = 0}

\* C23: for both colors and every rook, the generated rook moves are one
\* move to each square of its rank and file that is reached over empty
\* squares only and holds no piece of its color: a quiet move if the square
\* is empty, a capture if it holds a piece of the other color.
C23_RookMoves ==
  \A c \in Colors :
    \A ml \in {generateMoves(board, c, FALSE)} :
      \A q \in {s \in BoardSquares : board[s] = PieceOf(c, ROOK)} :
        \A ms \in {MovesFrom(ml, q)} :
          \A rt \in {RookTargets(board, c, q)} :
            /\ Targets(ms) = rt
            /\ Len(ms) = Cardinality(rt)
            /\ \A k \in 1 .. Len(ms) :
                 (getCaptureFlag(ms[k]) = 1) <=> (board[getTargetSquare(ms[k])] # NO_PIECE)

\* C23: a rook of the side to move has a quiet move, a capture behind empty
\* squares, a ray that ends at a piece of its own color, and a piece of the
\* other color behind the piece it can capture
C23_Witness ==
  \E q \in BoardSquares :
    /\ board[q] = PieceOf(sideToMove, ROOK)
    /\ \E ms \in {MovesFrom(MoveList, q)} :
         /\ \E k \in 1 .. Len(ms) : getCaptureFlag(ms[k]) = 0
         /\ \E k \in 1 .. Len(ms) :
              /\ getCaptureFlag(ms[k]) = 1
              /\ Screens(board, q, getTargetSquare(ms[k])) = 0
              /\ StrictlyBetween(q, getTargetSquare(ms[k])) # {}
    /\ \E t \in BoardSquares :
         /\ FileOf(t) = FileOf(q) \/ RankOf(t) = RankOf(q)
         /\ Screens(board, q, t) = 1
         /\ PieceColorOf(board[t]) = 1 - sideToMove

\* the pawn of color c on q has crossed the river
PawnCrossed(c, q) == IF c = WHITE THEN RankOf(q) >= 7 ELSE RankOf(q) <= 6

\* the forward step of color c
ForwardStep(c) == IF c = WHITE THEN FILE_NB ELSE 0 - FILE_NB

\* the steps of a pawn of color c on q: forward, and to both sides once it
\* has crossed the river
PawnSteps(c, q) ==
  {q + ForwardStep(c)} \cup (IF PawnCrossed(c, q) THEN {q - 1, q + 1} ELSE {})

\* the steps that end on the board and not on a piece of color c
PawnTargets(b, c, q) ==
  {t \in PawnSteps(c, q) : b[t] # OFFBOARD /\ PieceColorOf(b[t]) # c}

\* C24: for both colors and every pawn, the generated pawn moves are one
\* move for each permitted step that ends on the board and not on a piece
\* of its color: the forward step only for a pawn on its own side of the
\* river, the forward step and both sideways steps for a pawn past it.
C24_PawnMoves ==
  \A c \in Colors :
    \A ml \in {generateMoves(board, c, FALSE)} :
      \A q \in {s \in BoardSquares : board[s] = PieceOf(c, PAWN)} :
        \A ms \in {MovesFrom(ml, q)} :
          /\ Targets(ms) = PawnTargets(board, c, q)
          /\ Len(ms) = Cardinality(PawnTargets(board, c, q))
          /\ ~PawnCrossed(c, q) => Len(ms) <= 1

\* C24: a pawn on its own side has its one move, a pawn past the river has
\* three, and a pawn on the last rank has sideways moves only
C24_Witness ==
  /\ \E c \in Colors, q \in BoardSquares :
       /\ board[q] = PieceOf(c, PAWN) /\ ~PawnCrossed(c, q)
       /\ Len(MovesFrom(generateMoves(board, c, FALSE), q)) = 1
  /\ \E c \in Colors, q \in BoardSquares :
       /\ board[q] = PieceOf(c, PAWN) /\ PawnCrossed(c, q)
       /\ Len(MovesFrom(generateMoves(board, c, FALSE), q)) = 3
  /\ \E c \in Colors, q \in BoardSquares :
       /\ board[q] = PieceOf(c, PAWN)
       /\ board[q + ForwardStep(c)] = OFFBOARD
       /\ Len(MovesFrom(generateMoves(board, c, FALSE), q)) = 2

\* the square t lies on the half of color c
OwnHalf(c, t) == IF c = WHITE THEN RankOf(t) <= 6 ELSE RankOf(t) >= 7

\* the squares two files and two ranks away from q
BishopJumps(q) == {t \in BoardSquares : FileDist2(q, t) = 4 /\ RankDist2(q, t) = 4}

\* the jumps of a bishop of color c on q with an empty eye that end on the
\* half of c and not on a piece of c
BishopTargets(b, c, q) ==
  {t \in BishopJumps(q) :
     /\ b[(q + t) \div 2] = NO_PIECE
     /\ OwnHalf(c, t)
     /\ PieceColorOf(b[t]) # c}

\* C25: for both colors and every bishop, the generated bishop moves are
\* one move for each of the four two-step diagonal jumps whose eye square
\* is empty and whose target is on the board, on the half of its color and
\* not a piece of its color.
C25_BishopMoves ==
  \A c \in Colors :
    \A ml \in {generateMoves(board, c, FALSE)} :
      \A q \in {s \in BoardSquares : board[s] = PieceOf(c, BISHOP)} :
        \A ms \in {MovesFrom(ml, q)} :
          /\ Targets(ms) = BishopTargets(board, c, q)
          /\ Len(ms) = Cardinality(BishopTargets(board, c, q))
          /\ \A k \in 1 .. Len(ms) : OwnHalf(c, getTargetSquare(ms[k]))

\* C25: a bishop has a move, a jump with an occupied eye, and a jump with
\* an empty eye to an empty square of the other half
C25_Witness ==
  \E c \in Colors, q \in BoardSquares :
    /\ board[q] = PieceOf(c, BISHOP)
    /\ Len(MovesFrom(generateMoves(board, c, FALSE), q)) > 0
    /\ \E t \in BishopJumps(q) : board[(q + t) \div 2] # NO_PIECE
    /\ \E t \in BishopJumps(q) :
         /\ board[(q + t) \div 2] = NO_PIECE
         /\ board[t] = NO_PIECE
         /\ ~OwnHalf(c, t)

\* the four unit steps along a rank or a file
RaySteps == {1, 0 - 1, FILE_NB, 0 - FILE_NB}

\* t lies on the ray that leaves s with step delta
OnRay(s, t, delta) ==
  /\ (t - s) * delta > 0
  /\ IF delta * delta = 1 THEN RankOf(t) = RankOf(s) ELSE FileOf(t) = FileOf(s)

\* the squares holding a rook, a king or a cannon of color c
LinePieces(b, c) ==
  {t \in BoardSquares : b[t] \in {PieceOf(c, ROOK), PieceOf(c, KING), PieceOf(c, CANNON)}}

\* the piece on t attacks s along their line: a rook or a king with no
\* piece in between, a cannon with exactly one
AttacksAlongLine(b, s, t, c) ==
  IF b[t] = PieceOf(c, CANNON) THEN Screens(b, s, t) = 1
  ELSE Screens(b, s, t) = 0

\* C26: for both colors, every board square s and each of the four rays
\* from s, the line loop of isSquareAttacked reports an attack exactly when
\* the first piece on the ray is a rook or the king of that color, or the
\* second piece on the ray is a cannon of that color.
C26_LineAttackRays ==
  \A c \in Colors :
    \A lp \in {LinePieces(board, c)} :
      \A s \in BoardSquares, delta \in RaySteps :
        RayAttack(board, s + delta, delta, 0, c)
          <=> \E t \in lp : OnRay(s, t, delta) /\ AttacksAlongLine(board, s, t, c)

\* C26: a ray reports a cannon behind exactly one piece, another ray with a
\* rook or king behind one piece reports nothing, and so does a ray with a
\* rook, king or cannon behind two pieces
C26_Witness ==
  \E c \in Colors :
    \E lp \in {LinePieces(board, c)} :
      /\ \E s \in BoardSquares, delta \in RaySteps, t \in lp :
           /\ OnRay(s, t, delta)
           /\ board[t] = PieceOf(c, CANNON)
           /\ Screens(board, s, t) = 1
           /\ RayAttack(board, s + delta, delta, 0, c)
      /\ \E s \in BoardSquares, delta \in RaySteps, t \in lp :
           /\ OnRay(s, t, delta)
           /\ board[t] # PieceOf(c, CANNON)
           /\ Screens(board, s, t) = 1
           /\ ~RayAttack(board, s + delta, delta, 0, c)
      /\ \E s \in BoardSquares, delta \in RaySteps, t \in lp :
           /\ OnRay(s, t, delta)
           /\ Screens(board, s, t) >= 2
           /\ ~RayAttack(board, s + delta, delta, 0, c)

\* the squares holding a knight of color c
Knights(b, c) == {q \in BoardSquares : b[q] = PieceOf(c, KNIGHT)}

\* C27: for both colors and every board square s, the knight loop of
\* isSquareAttacked reports an attack exactly when a knight of that color
\* stands a knight jump away from s and the square next to that knight
\* towards s (its leg) is empty.
C27_KnightAttackMatchesGenerator ==
  \A c \in Colors :
    \A kn \in {Knights(board, c)} :
      \A s \in BoardSquares :
        KnightAttack(board, s, c)
          <=> \E q \in kn : IsKnightJump(q, s) /\ board[KnightLeg(q, s)] = NO_PIECE

\* C27: a knight attacks one square, and does not attack another square a
\* jump away because its leg towards it is occupied
C27_Witness ==
  \E c \in Colors, q \in BoardSquares :
    /\ board[q] = PieceOf(c, KNIGHT)
    /\ \E s \in BoardSquares :
         /\ IsKnightJump(q, s)
         /\ board[KnightLeg(q, s)] = NO_PIECE
         /\ KnightAttack(board, s, c)
    /\ \E s \in BoardSquares :
         /\ IsKnightJump(q, s)
         /\ board[KnightLeg(q, s)] # NO_PIECE
         /\ ~KnightAttack(board, s, c)

\* C28 (as claimed): for both colors and every board square s,
\* isSquareAttacked(s, c) is true whenever a pawn of color c stands on a
\* square from which it can step onto s: behind s in its forward direction,
\* or next to s on either side once it has crossed the river.
C28_PawnAttackDetected ==
  \A c \in Colors :
    \A q \in {t \in BoardSquares : board[t] = PieceOf(c, PAWN)} :
      \A s \in PawnSteps(c, q) \cap BoardSquares :
        isSquareAttacked(board, s, c)

\* each color has exactly one king on the board, on its cached square
OneKingEach(b, ks) ==
  \A c \in Colors : {s \in BoardSquares : b[s] = PieceOf(c, KING)} = {ks[c + 1]}

\* C29 (as claimed): with one king per side, if a generated move of color c
\* has the square of the other king as its target, isSquareAttacked reports
\* that square attacked by c; and in a position reached by a successful
\* make_move no generated move captures a king.
C29_KingCaptureImpliesAttacked ==
  OneKingEach(board, kingSquare) =>
    /\ \A c \in Colors :
         \A ml \in {generateMoves(board, c, FALSE)} :
           (\E k \in 1 .. Len(ml) : getTargetSquare(ml[k]) = kingSquare[(1 - c) + 1])
             => isSquareAttacked(board, kingSquare[(1 - c) + 1], c)
    /\ (last.op = "make_move" /\ last.ok) =>
         \A ml \in {MoveList} :
           \A k \in 1 .. Len(ml) : ~IsKing(getTargetPiece(ml[k]))

\* C30: make_move and undo_move change no board cell but the source and the
\* target square of the move; a successful make_move leaves the source cell
\* empty and the moved piece on the target cell, undo_move puts the moved
\* piece back and the captured piece (or nothing) on the target cell, and a
\* rejected make_move leaves the board as it was.
C30_OnlySourceAndTargetWritten ==
  [][/\ Len(moveStack') = Len(moveStack) + 1 =>
          \A m \in {moveStack'[Len(moveStack')]} :
            /\ \A s \in Squares \ {getSourceSquare(m), getTargetSquare(m)} :
                 board'[s] = board[s]
            /\ board'[getSourceSquare(m)] = NO_PIECE
            /\ board'[getTargetSquare(m)] = board[getSourceSquare(m)]
     /\ Len(moveStack') = Len(moveStack) - 1 =>
          \A m \in {moveStack[Len(moveStack)]} :
            /\ \A s \in Squares \ {getSourceSquare(m), getTargetSquare(m)} :
                 board'[s] = board[s]
            /\ board'[getSourceSquare(m)] = board[getTargetSquare(m)]
            /\ board'[getTargetSquare(m)] = getTargetPiece(m)
     /\ (last'.op = "make_move" /\ ~last'.ok) => board' = board]_vars

\* C30: a capture was applied after an earlier move had been undone or
\* rejected: one piece less is on the board than before the capture
C30_Witness ==
  /\ last.op = "make_move" /\ last.ok /\ ~last.pure
  /\ getCaptureFlag(last.move) = 1
  /\ board[getSourceSquare(last.move)] = NO_PIECE
  /\ board[getTargetSquare(last.move)] = getSourcePiece(last.move)
  /\ Cardinality({s \in BoardSquares : board[s] # NO_PIECE})
       = Cardinality({s \in BoardSquares : last.pre.board[s] # NO_PIECE}) - 1

====
